---- MODULE Spec2Model ----
(***************************************************************************)
(* Model of generators/app/notebookConverter.js: the folder scan that      *)
(* fills generator.extensionConfig, the title heuristic, and the TOC /     *)
(* readme build of a Jupyter book.                                         *)
(*                                                                         *)
(* File names and file texts are sequences of one-character strings, so    *)
(* path.extname, toLowerCase, split, replace and trim are computed on the  *)
(* characters. A path is the sequence of its segments (what path.join      *)
(* yields after normalisation). File names are exact: two names that       *)
(* differ in case are two files. Writing readme.md into a chapter that was *)
(* just listed succeeds; writing toc.yml succeeds when ./_data exists.     *)
(***************************************************************************)
EXTENDS Integers, Sequences, FiniteSets, TLC

VARIABLES
    disk,            \* the folder tree the scans read
    notebookNames,   \* generator.extensionConfig.notebookNames
    notebookPaths,   \* generator.extensionConfig.notebookPaths
    notebookFolders, \* generator.extensionConfig.notebookFolders
    scanned,         \* for each pushed name, the folderPath of the findNotebookFiles call that pushed it
    ret,             \* what the last exported call returned
    errors,          \* the errors array of the last exported call, at its end
    log,             \* what the last exported call passed to generator.log
    gfc,             \* the getFolderContent calls of the last exported call, in order
    last,            \* the last exported call: its name and argument
    calls,           \* number of exported calls so far
    titleIn,         \* findTitle: the file name and the file's text
    titleOut,        \* findTitle: its outcome
    book,            \* ./content, ./_data and context.chapterNames of the TOC build
    wrote,           \* what each run of buildCustomBook wrote, per run
    runs             \* number of buildCustomBook runs so far

vars == <<disk, notebookNames, notebookPaths, notebookFolders, scanned, ret, errors,
          log, gfc, last, calls, titleIn, titleOut, book, wrote, runs>>

scanVars == <<disk, notebookNames, notebookPaths, notebookFolders, scanned, ret, errors,
              log, gfc, last, calls>>
titleVars == <<titleIn, titleOut>>
bookVars == <<book, wrote, runs>>

(***************************************************************************)
(* Bounds                                                                  *)
(***************************************************************************)
MaxEntries == 2
MaxCalls == 2

(***************************************************************************)
(* Characters and strings                                                  *)
(***************************************************************************)
Upper == <<"A","B","C","D","E","F","G","H","I","J","K","L","M","N","O","P","Q","R","S","T","U","V","W","X","Y","Z">>
Lower == <<"a","b","c","d","e","f","g","h","i","j","k","l","m","n","o","p","q","r","s","t","u","v","w","x","y","z">>

\* String.prototype.toLowerCase, one character
LowerChar(c) ==
    IF \E i \in 1..Len(Upper) : Upper[i] = c
    THEN Lower[CHOOSE i \in 1..Len(Upper) : Upper[i] = c]
    ELSE c

\* String.prototype.toLowerCase
ToLowerCase(s) == [i \in 1..Len(s) |-> LowerChar(s[i])]

\* String.prototype.indexOf(sub) > -1
Contains(s, sub) ==
    \E i \in 0..(Len(s) - Len(sub)) : SubSeq(s, i + 1, i + Len(sub)) = sub

\* the distinct sequences over S of length at most n (a directory listing has no name twice)
Listings(S, n) ==
    UNION {{q \in [1..k -> S] : \A i, j \in 1..k : i # j => q[i] # q[j]} : k \in 0..n}

\* the elements of a sequence
Range(q) == {q[i] : i \in 1..Len(q)}

(***************************************************************************)
(* path                                                                    *)
(***************************************************************************)
\* index of the last "." of a name, 0 when there is none
LastDot(name) ==
    IF \E i \in 1..Len(name) : name[i] = "."
    THEN CHOOSE i \in 1..Len(name) : name[i] = "." /\ \A j \in (i+1)..Len(name) : name[j] # "."
    ELSE 0

\* path.extname of a name without separators: from the last dot on; empty when there is
\* no dot, when the only dot is the first character, and for ".."
ExtName(name) ==
    LET sd == LastDot(name) IN
    IF sd = 0 \/ sd = 1 \/ name = <<".", ".">>
    THEN <<>>
    ELSE SubSeq(name, sd, Len(name))

\* path.join(folderPath, fileName)
Join(folderPath, fileName) == Append(folderPath, fileName)

ExtIpynb == <<".","i","p","y","n","b">>
ExtMd == <<".","m","d">>

(***************************************************************************)
(* The folder tree read by the scans                                       *)
(***************************************************************************)
\* what fs.statSync / fs.readdirSync do on a path:
\*   "missing"  statSync throws
\*   "file"     statSync succeeds, isDirectory() is false
\*   "dir"      statSync succeeds, isDirectory() is true, readdirSync lists it
\*   "noaccess" statSync succeeds, isDirectory() is true, readdirSync throws
Kinds == {"missing", "file", "dir", "noaccess"}

RootName == <<"b">>
ChName == <<"c","h">>
XName == <<"x",".","m","d">>
Root == <<RootName>>
Nowhere == << <<"n","o">> >>
TopNames == {ChName, XName}

FileNames == { <<"a",".","i","p","y","n","b">>,
               <<"B",".","M","D">>,
               <<"c",".","t","x","t">>,
               <<".","m","d">> }

\* the listing of the root entry x.md when that entry is a directory
XEntries == << <<"e",".","I","p","y","n","b">>, <<"f">> >>

ScanPaths == {Root, Join(Root, ChName), Join(Root, XName), Nowhere}

Disks ==
    {d \in [rootKind : Kinds, rootEntries : Listings(TopNames, MaxEntries),
            chKind : Kinds \ {"missing"}, chEntries : Listings(FileNames, MaxEntries),
            xKind : Kinds \ {"missing"}] :
        /\ d.rootKind # "dir" => d.rootEntries = <<>>
        /\ ChName \notin Range(d.rootEntries) => d.chKind = "file"
        /\ XName \notin Range(d.rootEntries) => d.xKind = "file"
        /\ d.chKind # "dir" => d.chEntries = <<>>}

KindOf(d, p) ==
    IF p = Root THEN d.rootKind
    ELSE IF p = Join(Root, ChName) /\ ChName \in Range(d.rootEntries) THEN d.chKind
    ELSE IF p = Join(Root, XName) /\ XName \in Range(d.rootEntries) THEN d.xKind
    ELSE "missing"

ReadDir(d, p) ==
    IF p = Root THEN d.rootEntries
    ELSE IF p = Join(Root, ChName) THEN d.chEntries
    ELSE XEntries

\* e.message of the failing fs call
FsMessage(kind) == IF kind = "missing" THEN "ENOENT" ELSE "EACCES"

(***************************************************************************)
(* getFolderContent                                                        *)
(***************************************************************************)
\* an errors argument: an array, or undefined when the caller passes none
Collector(list) == [given |-> TRUE, list |-> list]
NoCollector == [given |-> FALSE, list |-> <<>>]

\* The outcome of getFolderContent(folderPath, errors): the returned list, the
\* collector afterwards, and whether the call threw (errors.push on undefined).
\* Variant: the non-directory branch pushes an error like the catch block does.
GetFolderContentAlwaysLogs(d, folderPath, errs) ==
    LET k == KindOf(d, folderPath) IN
    IF k = "dir"
    THEN [files |-> ReadDir(d, folderPath), errors |-> errs, threw |-> FALSE]
    ELSE IF errs.given
         THEN [files |-> <<>>,
               errors |-> Collector(Append(errs.list,
                              [path |-> folderPath, message |-> FsMessage(k)])),
               threw |-> FALSE]
         ELSE [files |-> <<>>, errors |-> errs, threw |-> TRUE]

GetFolderContent(d, folderPath, errs) ==
    LET k == KindOf(d, folderPath) IN
    IF k = "dir"
    THEN [files |-> ReadDir(d, folderPath), errors |-> errs, threw |-> FALSE]
    ELSE IF k = "file"
    THEN [files |-> <<>>, errors |-> errs, threw |-> FALSE]
    ELSE \* statSync or readdirSync threw: the catch block
         IF errs.given
         THEN [files |-> <<>>,
               errors |-> Collector(Append(errs.list,
                              [path |-> folderPath, message |-> FsMessage(k)])),
               threw |-> FALSE]
         ELSE [files |-> <<>>, errors |-> errs, threw |-> TRUE]

\* the record of one getFolderContent call kept in gfc
GfcRecord(folderPath, errs, g) ==
    [path |-> folderPath, given |-> errs.given, threw |-> g.threw, files |-> g.files,
     pushed |-> SubSeq(g.errors.list, Len(errs.list) + 1, Len(g.errors.list))]

(***************************************************************************)
(* findNotebookFiles                                                       *)
(***************************************************************************)
\* the registry: generator.extensionConfig, with the folder each name came from
Config == [names |-> notebookNames, paths |-> notebookPaths,
           folders |-> notebookFolders, scanned |-> scanned]

\* the extension test of the forEach body
\* Variant: the test without toLowerCase.
IsNotebookExtCaseSensitive(fileName) ==
    ExtName(fileName) = ExtIpynb \/ ExtName(fileName) = ExtMd

IsNotebookExt(fileName) ==
    LET extension == ToLowerCase(ExtName(fileName)) IN
    extension = ExtIpynb \/ extension = ExtMd

\* the forEach of findNotebookFiles over files[i..], from count n and registry cfg
RECURSIVE ForEachFile(_, _, _, _, _)
\* Variant: the notebookPaths push placed after the if, so it runs for every entry.
ForEachFilePathOutsideIf(files, i, folderPath, n, cfg) ==
    IF i > Len(files) THEN [count |-> n, cfg |-> cfg]
    ELSE LET fileName == files[i] IN
         IF IsNotebookExt(fileName)
         THEN ForEachFile(files, i + 1, folderPath, n + 1,
                  [cfg EXCEPT !.names = Append(@, fileName),
                              !.paths = Append(@, Join(folderPath, fileName)),
                              !.scanned = Append(@, folderPath)])
         ELSE ForEachFile(files, i + 1, folderPath, n,
                  [cfg EXCEPT !.paths = Append(@, Join(folderPath, fileName))])

ForEachFile(files, i, folderPath, n, cfg) ==
    IF i > Len(files) THEN [count |-> n, cfg |-> cfg]
    ELSE LET fileName == files[i] IN
         IF IsNotebookExt(fileName)
         THEN ForEachFile(files, i + 1, folderPath, n + 1,
                  [cfg EXCEPT !.names = Append(@, fileName),
                              !.paths = Append(@, Join(folderPath, fileName)),
                              !.scanned = Append(@, folderPath)])
         ELSE ForEachFile(files, i + 1, folderPath, n, cfg)

FindNotebookFiles(d, folderPath, errs, cfg) ==
    LET g == GetFolderContent(d, folderPath, errs)
        r == ForEachFile(g.files, 1, folderPath, 0, cfg)
    IN [count |-> r.count, cfg |-> r.cfg, errors |-> g.errors, threw |-> g.threw,
        gfc |-> <<GfcRecord(folderPath, errs, g)>>]

(***************************************************************************)
(* discoverFoldersContainingNotebooks                                      *)
(***************************************************************************)
\* the forEach over subfolders[i..]
RECURSIVE ForEachDir(_, _, _, _, _, _, _, _)
ForEachDir(d, subfolders, i, rootFolder, total, errs, cfg, trace) ==
    IF i > Len(subfolders)
    THEN [count |-> total, cfg |-> cfg, errors |-> errs, threw |-> FALSE, gfc |-> trace]
    ELSE LET dir == subfolders[i]
             dirPath == Join(rootFolder, dir)
             f == FindNotebookFiles(d, dirPath, errs, cfg)
         IN ForEachDir(d, subfolders, i + 1, rootFolder, total + f.count, f.errors,
                       [f.cfg EXCEPT !.folders = Append(@, dir)], trace \o f.gfc)

DiscoverFoldersContainingNotebooks(d, rootFolder, errs, cfg) ==
    LET g == GetFolderContent(d, rootFolder, NoCollector)
        first == <<GfcRecord(rootFolder, NoCollector, g)>>
    IN IF g.threw
       THEN [count |-> 0, cfg |-> cfg, errors |-> errs, threw |-> TRUE, gfc |-> first]
       ELSE ForEachDir(d, g.files, 1, rootFolder, 0, errs, cfg, first)

(***************************************************************************)
(* The exported scans                                                      *)
(***************************************************************************)
Number(n) == [kind |-> "number", val |-> n]
Undefined == [kind |-> "undefined", val |-> 0]

SetConfig(cfg) ==
    /\ notebookNames' = cfg.names
    /\ notebookPaths' = cfg.paths
    /\ notebookFolders' = cfg.folders
    /\ scanned' = cfg.scanned

ProcessNotebookFolder(folderPath) ==
    /\ calls < MaxCalls
    /\ LET r == FindNotebookFiles(disk, folderPath, Collector(<<>>), Config) IN
        /\ SetConfig(r.cfg)
        /\ errors' = r.errors.list
        /\ gfc' = r.gfc
        /\ log' = IF r.count <= 0
                  THEN <<[msg |-> "No valid notebooks found in", count |-> r.count,
                          errors |-> r.errors.list]>>
                  ELSE <<[msg |-> "notebook(s) found.", count |-> r.count,
                          errors |-> r.errors.list]>>
        /\ ret' = Number(r.count)
    /\ last' = [op |-> "processNotebookFolder", path |-> folderPath]
    /\ calls' = calls + 1
    /\ UNCHANGED <<disk, titleVars, bookVars>>

ProcessBookFolder(folderPath) ==
    /\ calls < MaxCalls
    /\ LET r == DiscoverFoldersContainingNotebooks(disk, folderPath, Collector(<<>>), Config)
           found == [msg |-> "Jupyter Book found!", count |-> 0, errors |-> <<>>]
       IN
        /\ SetConfig(r.cfg)
        /\ errors' = r.errors.list
        /\ gfc' = r.gfc
        /\ log' = IF r.threw
                  THEN <<found, [msg |-> "An unexpected error occurred:", count |-> 0,
                                 errors |-> <<>>]>>
                  ELSE <<found, [msg |-> "notebook(s) found!", count |-> r.count,
                                 errors |-> r.errors.list]>>
        /\ ret' = IF r.threw THEN Undefined ELSE Number(r.count)
    /\ last' = [op |-> "processBookFolder", path |-> folderPath]
    /\ calls' = calls + 1
    /\ UNCHANGED <<disk, titleVars, bookVars>>

NoCall == [op |-> "none", path |-> <<>>]
NoTitleIn == [file |-> <<>>, data |-> <<>>]
NoTitleOut == [kind |-> "none", val |-> <<>>]
NoBook == [hasContent |-> FALSE]

Init ==
    /\ disk \in Disks
    /\ notebookNames = <<>>
    /\ notebookPaths = <<>>
    /\ notebookFolders = <<>>
    /\ scanned = <<>>
    /\ ret = Undefined
    /\ errors = <<>>
    /\ log = <<>>
    /\ gfc = <<>>
    /\ last = NoCall
    /\ calls = 0
    /\ titleIn = NoTitleIn
    /\ titleOut = NoTitleOut
    /\ book = NoBook
    /\ wrote = <<>>
    /\ runs = 0

Next ==
    \/ \E folderPath \in ScanPaths : ProcessNotebookFolder(folderPath)
    \/ \E folderPath \in ScanPaths : ProcessBookFolder(folderPath)

Spec == Init /\ [][Next]_vars

(***************************************************************************)
(* Properties of the scans                                                 *)
(***************************************************************************)
\* a step that is one call of the named exported scan
CallStep(op) == calls' = calls + 1 /\ last'.op = op

\* The extension of an entry name as the claims use the word: the part from the last
\* dot on, for a name that has characters before that dot.
HasExtension(name, ext) ==
    \E k \in 2..Len(name) :
        /\ name[k] = "."
        /\ \A j \in (k+1)..Len(name) : name[j] # "."
        /\ ToLowerCase(SubSeq(name, k, Len(name))) = ext

IsNotebookEntry(name) == HasExtension(name, ExtIpynb) \/ HasExtension(name, ExtMd)

\* the listing of a folder that exists, is a directory and can be read
ListingOf(p) == IF KindOf(disk, p) = "dir" THEN ReadDir(disk, p) ELSE <<>>

\* the matching entries of a folder, in listing order
MatchesOf(p) == SelectSeq(ListingOf(p), IsNotebookEntry)

\* C1: one call of processNotebookFolder on a folder whose listing holds N entries with
\* extension .ipynb or .md (case-insensitive) and M others returns N and appends exactly
\* those N entries to notebookNames and their N paths to notebookPaths, in listing order.
C1_ScanCountsAndAppends ==
    [][CallStep("processNotebookFolder") =>
        LET p == last'.path
            m == MatchesOf(p)
        IN /\ ret' = Number(Len(m))
           /\ notebookNames' = notebookNames \o m
           /\ notebookPaths' = notebookPaths \o [i \in 1..Len(m) |-> Append(p, m[i])]]_vars

\* C1 witness: a single-folder scan of a directory that holds a matching entry spelt in
\* upper case next to an entry with another extension.
C1_Witness ==
    /\ last.op = "processNotebookFolder"
    /\ KindOf(disk, last.path) = "dir"
    /\ ret = Number(1)
    /\ Len(ReadDir(disk, last.path)) = 2
    /\ notebookNames = << <<"B",".","M","D">> >>

\* C2: after any sequence of scans, notebookNames and notebookPaths have equal length and
\* notebookPaths[i] is the join of the folder that was scanned with notebookNames[i].
C2_NamesPathsParallel ==
    /\ Len(notebookNames) = Len(notebookPaths)
    /\ Len(scanned) = Len(notebookNames)
    /\ \A i \in 1..Len(notebookNames) :
        /\ notebookPaths[i] = Append(scanned[i], notebookNames[i])
        /\ scanned[i] \in ScanPaths
        /\ notebookNames[i] \in Range(ReadDir(disk, scanned[i]))

\* C2 witness: a single-folder scan followed by a book-wide scan, with names pushed from
\* two different folders.
C2_Witness ==
    /\ calls = 2
    /\ last.op = "processBookFolder"
    /\ Len(notebookNames) >= 3
    /\ \E i, j \in 1..Len(scanned) : scanned[i] # scanned[j]

\* the calls of getFolderContent that were given an error collector
WithCollector == {i \in 1..Len(gfc) : gfc[i].given}

\* C3 as stated: getFolderContent returns the listing for a path that exists and is a
\* directory, and for every other path an empty list and exactly one error string
\* containing the path; scanning such a path yields zero matches and one error string.
C3_Original ==
    /\ \A i \in WithCollector :
        IF KindOf(disk, gfc[i].path) = "dir"
        THEN gfc[i].files = ReadDir(disk, gfc[i].path) /\ gfc[i].pushed = <<>>
        ELSE /\ gfc[i].files = <<>>
             /\ Len(gfc[i].pushed) = 1
             /\ gfc[i].pushed[1].path = gfc[i].path
    /\ (last.op = "processNotebookFolder" /\ KindOf(disk, last.path) # "dir") =>
        (ret = Number(0) /\ Len(errors) = 1)

\* C3 amended: with a collector, getFolderContent returns the listing for a readable
\* directory and pushes nothing; when statSync or readdirSync throws it returns an empty
\* list and pushes exactly one error carrying the path; for a path that exists but is
\* not a directory it returns an empty list and pushes no error. A single-folder scan of
\* a path that cannot be read yields zero matches and one error, of a non-directory zero
\* matches and no error.
C3_FolderContent ==
    /\ \A i \in WithCollector :
        LET k == KindOf(disk, gfc[i].path) IN
        /\ ~gfc[i].threw
        /\ k = "dir" => gfc[i].files = ReadDir(disk, gfc[i].path) /\ gfc[i].pushed = <<>>
        /\ k \in {"missing", "noaccess"} =>
            /\ gfc[i].files = <<>>
            /\ Len(gfc[i].pushed) = 1
            /\ gfc[i].pushed[1].path = gfc[i].path
        /\ k = "file" => gfc[i].files = <<>> /\ gfc[i].pushed = <<>>
    /\ last.op = "processNotebookFolder" =>
        LET k == KindOf(disk, last.path) IN
        /\ k \in {"missing", "noaccess"} =>
            ret = Number(0) /\ Len(errors) = 1 /\ errors[1].path = last.path
        /\ k = "file" => ret = Number(0) /\ errors = <<>>

\* C3 witness: a single-folder scan of a path that exists and is not a directory, as the
\* second call on the generator.
C3_Witness ==
    /\ calls = 2
    /\ last.op = "processNotebookFolder"
    /\ KindOf(disk, last.path) = "file"
    /\ Len(gfc) = 1 /\ gfc[1].given /\ gfc[1].pushed = <<>>
    /\ errors = <<>>

\* C4 as stated: no call of getFolderContent raises to its caller, at any call site.
C4_NeverRaises == \A i \in 1..Len(gfc) : ~gfc[i].threw

\* the root entries that are directories, in listing order
IsSubfolder(root, e) == KindOf(disk, Join(root, e)) \in {"dir", "noaccess"}
SubfoldersOf(root) == SelectSeq(ListingOf(root), LAMBDA e : IsSubfolder(root, e))

RECURSIVE SumMatches(_, _)
SumMatches(root, dirs) ==
    IF dirs = <<>> THEN 0
    ELSE Len(MatchesOf(Join(root, Head(dirs)))) + SumMatches(root, Tail(dirs))

\* C5 as stated: processBookFolder on a root directory returns the sum of the
\* single-folder match counts over the root's subfolders and appends to notebookFolders
\* exactly the names of the root's subfolders, in listing order, with no entry for a root
\* entry that is not a directory.
C5_BookFolders ==
    [][(CallStep("processBookFolder") /\ KindOf(disk, last'.path) = "dir") =>
        LET root == last'.path IN
        /\ ret' = Number(SumMatches(root, SubfoldersOf(root)))
        /\ notebookFolders' = notebookFolders \o SubfoldersOf(root)]_vars

(***************************************************************************)
(* findTitle                                                               *)
(***************************************************************************)
MaxLines == 8

LF == "\n"
CR == "\r"
BackSlash == "\\"
Quote == "\""

Untitled == <<"U","n","t","i","t","l","e","d">>
Collapsed == <<"c","o","l","l","a","p","s","e","d">>

\* data.split(/\r?\n/): cut at every line feed, dropping one carriage return before it
RECURSIVE SplitFrom(_, _, _, _)
SplitFrom(data, i, cur, acc) ==
    IF i > Len(data) THEN Append(acc, cur)
    ELSE IF data[i] = LF
    THEN SplitFrom(data, i + 1, <<>>, Append(acc, cur))
    ELSE IF data[i] = CR /\ i < Len(data) /\ data[i + 1] = LF
    THEN SplitFrom(data, i + 2, <<>>, Append(acc, cur))
    ELSE SplitFrom(data, i + 1, Append(cur, data[i]), acc)

SplitLines(data) == SplitFrom(data, 1, <<>>, <<>>)

\* line.replace(/[:#"',]/g, '')
IsStripped(c) == c \in {":", "#", Quote, "'", ","}
StripChars(line) == SelectSeq(line, LAMBDA c : ~IsStripped(c))

\* s.replace(/\\n/g, ''): one pass, left to right, over a backslash followed by n
RECURSIVE StripBackslashN(_)
StripBackslashN(s) ==
    IF s = <<>> THEN <<>>
    ELSE IF Len(s) >= 2 /\ s[1] = BackSlash /\ s[2] = "n"
    THEN StripBackslashN(SubSeq(s, 3, Len(s)))
    ELSE <<s[1]>> \o StripBackslashN(Tail(s))

\* String.prototype.trim
IsSpace(c) == c \in {" ", "\t", LF, CR}
RECURSIVE TrimStart(_)
TrimStart(s) == IF s # <<>> /\ IsSpace(s[1]) THEN TrimStart(Tail(s)) ELSE s
RECURSIVE TrimEnd(_)
TrimEnd(s) ==
    IF s # <<>> /\ IsSpace(s[Len(s)]) THEN TrimEnd(SubSeq(s, 1, Len(s) - 1)) ELSE s
Trim(s) == TrimEnd(TrimStart(s))

\* the two replaces and the trim of findTitle
CleanTitle(line) == Trim(StripBackslashN(StripChars(line)))

\* a file of the tree as readFileSync sees it: text, or a directory (readFileSync throws)
TextFile(data) == [kind |-> "file", data |-> data]
DirNode == [kind |-> "dir", data |-> <<>>]

Title(val) == [kind |-> "value", val |-> val]
NoTitle == [kind |-> "undefined", val |-> <<>>]
Throws == [kind |-> "throw", val |-> <<>>]

\* findTitle(file, filePath), filePath holding node: the title, undefined, or an exception
FindTitle(file, node) ==
    IF node.kind # "file" THEN Throws
    ELSE LET lines == SplitLines(node.data) IN
         IF lines[1] = <<>> \/ (Len(lines) >= 7 /\ Contains(lines[7], Collapsed))
         THEN Title(Untitled)
         ELSE IF ExtName(file) = ExtIpynb
         THEN IF Len(lines) < 7 THEN Throws
              ELSE Title(CleanTitle(lines[7]))
         ELSE IF ExtName(file) = ExtMd
         THEN Title(CleanTitle(lines[1]))
         ELSE NoTitle

\* the file names and lines the title heuristic is tried on
TitleFiles == { <<"a",".","i","p","y","n","b">>, <<"a",".","m","d">>,
                <<"a",".","t","x","t">>, <<"A",".","I","P","Y","N","B">> }

LineSet == { <<>>,
             <<"{">>,
             <<"#"," ","H","i">>,
             <<" "," ",Quote,"#"," ","T",BackSlash,"n",Quote,",">>,
             <<" ",Quote,"c","o","l","l","a","p","s","e","d",Quote,":"," ","t">>,
             <<"a",":","'","b"," ",BackSlash,":","n","c",CR>> }

Eols == {<<LF>>, <<CR, LF>>}

RECURSIVE JoinLines(_, _)
JoinLines(lines, eol) ==
    IF Len(lines) = 1 THEN lines[1]
    ELSE lines[1] \o eol \o JoinLines(Tail(lines), eol)

\* a text of n lines with the given first and seventh line
TextOf(n, first, seventh, eol) ==
    JoinLines([i \in 1..n |-> IF i = 1 THEN first ELSE IF i = 7 THEN seventh ELSE <<"{">>],
              eol)

EmptyDisk == [rootKind |-> "missing", rootEntries |-> <<>>, chKind |-> "file",
              chEntries |-> <<>>, xKind |-> "file"]

ScanIdle ==
    /\ disk = EmptyDisk
    /\ notebookNames = <<>>
    /\ notebookPaths = <<>>
    /\ notebookFolders = <<>>
    /\ scanned = <<>>
    /\ ret = Undefined
    /\ errors = <<>>
    /\ log = <<>>
    /\ gfc = <<>>
    /\ last = NoCall
    /\ calls = 0

InitTitle ==
    /\ ScanIdle
    /\ \E file \in TitleFiles, n \in 1..MaxLines, first \in LineSet, seventh \in LineSet,
          eol \in Eols :
        titleIn = [file |-> file, data |-> TextOf(n, first, seventh, eol)]
    /\ titleOut = NoTitleOut
    /\ book = NoBook
    /\ wrote = <<>>
    /\ runs = 0

FindTitleCall ==
    /\ titleOut.kind = "none"
    /\ titleOut' = FindTitle(titleIn.file, TextFile(titleIn.data))
    /\ UNCHANGED <<titleIn, scanVars, bookVars>>

NextTitle == FindTitleCall

SpecTitle == InitTitle /\ [][NextTitle]_vars

\* C6 as stated: for every file text and file type findTitle returns without raising:
\* Untitled when the first line is empty or line index 6 contains "collapsed"; otherwise,
\* for a .ipynb file, line index 6 with : # " ' , and backslash-n sequences removed and
\* trimmed; for a .md file the same of line index 0; no title for any other extension.
C6_FindTitle ==
    titleOut.kind # "none" =>
        LET lines == SplitLines(titleIn.data)
            file == titleIn.file
        IN /\ titleOut.kind # "throw"
           /\ (lines[1] = <<>> \/ (Len(lines) >= 7 /\ Contains(lines[7], Collapsed)))
                => titleOut = Title(Untitled)
           /\ (lines[1] # <<>> /\ ~(Len(lines) >= 7 /\ Contains(lines[7], Collapsed))) =>
                /\ (HasExtension(file, ExtIpynb) /\ file = ToLowerCase(file) /\ Len(lines) >= 7)
                    => titleOut = Title(CleanTitle(lines[7]))
                /\ (HasExtension(file, ExtMd) /\ file = ToLowerCase(file))
                    => titleOut = Title(CleanTitle(lines[1]))
                /\ ~(HasExtension(file, ExtIpynb) \/ HasExtension(file, ExtMd))
                    => titleOut = NoTitle

(***************************************************************************)
(* The TOC build: buildCustomBook                                          *)
(***************************************************************************)
MaxChapterEntries == 2
MaxRuns == 2

\* the entries ./content may hold: two chapter directories and a top-level file
Ch1 == <<"C","h","1">>
Ch2 == <<"c","2">>
Single == <<"S",".","m","d">>
Chapters == {Ch1, Ch2}
ContentNames == {Ch1, Ch2, Single}

\* the entries a chapter directory may hold
NbGood == <<"N",".","i","p","y","n","b">>
NbShort == <<"k",".","i","p","y","n","b">>
MdFile == <<"m",".","m","d">>
Readme == <<"r","e","a","d","m","e",".","m","d">>
SubDir == <<"s","u","b">>
ChapterFiles == {NbGood, NbShort, MdFile, Readme, SubDir}

\* the listings tried for the second chapter
Ch2Listings == { <<MdFile>>, <<SubDir, MdFile>>, <<Readme, NbGood>> }

\* context.chapterNames: absent, or an array of display names
NameA == <<"A">>
NameB == <<"B">>
ChapterNameArrays == { <<NameA>>, <<NameA, NameB>> }

\* the text of readme.md before any run
OldReadme == <<"#"," ","R">>

Books ==
    {b \in [hasContent : BOOLEAN, hasData : BOOLEAN,
            content : Listings(ContentNames, Cardinality(ContentNames)),
            chapters : [Chapters -> Listings(ChapterFiles, MaxChapterEntries)],
            readme : [Chapters -> {OldReadme}],
            hasNames : BOOLEAN, chapterNames : ChapterNameArrays \cup {<<>>}] :
        /\ b.hasNames = (b.chapterNames # <<>>)
        /\ ~b.hasContent => b.content = <<>>
        /\ Ch1 \notin Range(b.content) => b.chapters[Ch1] = <<>>
        /\ Ch2 \notin Range(b.content) => b.chapters[Ch2] = <<MdFile>>
        /\ b.chapters[Ch2] \in Ch2Listings}

\* fs.statSync(dirPath).isDirectory() of an entry of ./content
IsChapterDir(file) == file \in Chapters

\* what readFileSync finds at ./content/<chapter>/<file> (chapter <<>>: ./content/<file>)
FileNode(b, chapter, file) ==
    IF file = SubDir THEN DirNode
    ELSE IF file = Readme THEN TextFile(b.readme[chapter])
    ELSE IF file = NbGood
    THEN TextFile(TextOf(7, <<"{">>, <<" "," ",Quote,"#"," ","T",BackSlash,"n",Quote,",">>, <<LF>>))
    ELSE IF file = NbShort THEN TextFile(<<"{">>)
    ELSE TextFile(<<"#"," ","H","i",LF,"x">>)

\* file.indexOf('readme') === -1
NotReadme(file) == ~Contains(file, <<"r","e","a","d","m","e">>)

\* fileName.slice(0, -k)
SliceEnd(fileName, k) == SubSeq(fileName, 1, Len(fileName) - k)

\* getSlicedFilename
GetSlicedFilename(fileName) ==
    IF ExtName(fileName) = ExtIpynb THEN SliceEnd(fileName, 6) ELSE SliceEnd(fileName, 3)

\* One fragment of tocContent: the text of one template literal, kept as the values
\* interpolated into it. url is <chapter>/<page> (chapter <<>> for a flat entry).
ChapterStanza(chapterTitle, file) ==
    [kind |-> "chapter", title |-> chapterTitle,
     url |-> [chapter |-> file, page |-> <<"r","e","a","d","m","e">>]]
NotebookStanza(title, chapter, slicedFileName) ==
    [kind |-> "notebook", title |-> title,
     url |-> [chapter |-> ToLowerCase(chapter), page |-> ToLowerCase(slicedFileName)]]
SingleStanza(title, slicedFileName) ==
    [kind |-> "single", title |-> title,
     url |-> [chapter |-> <<>>, page |-> ToLowerCase(slicedFileName)]]

\* `${title}` inside a template literal
Interpolate(t) ==
    IF t.kind = "value" THEN t.val ELSE <<"u","n","d","e","f","i","n","e","d">>

\* writeForEachNotebook: the forEach over notebooks[i..]; threw when findTitle raised
RECURSIVE ForEachNotebook(_, _, _, _, _)
\* Variant: without the readme test.
ForEachNotebookNoFilter(b, chapter, notebooks, i, content) ==
    IF i > Len(notebooks) THEN [threw |-> FALSE, content |-> content]
    ELSE LET file == notebooks[i]
             title == FindTitle(file, FileNode(b, chapter, file))
         IN IF title.kind = "throw" THEN [threw |-> TRUE, content |-> <<>>]
            ELSE ForEachNotebook(b, chapter, notebooks, i + 1,
                     Append(content, NotebookStanza(title, chapter, GetSlicedFilename(file))))

ForEachNotebook(b, chapter, notebooks, i, content) ==
    IF i > Len(notebooks) THEN [threw |-> FALSE, content |-> content]
    ELSE LET file == notebooks[i] IN
         IF NotReadme(file)
         THEN LET title == FindTitle(file, FileNode(b, chapter, file)) IN
              IF title.kind = "throw" THEN [threw |-> TRUE, content |-> <<>>]
              ELSE ForEachNotebook(b, chapter, notebooks, i + 1,
                       Append(content, NotebookStanza(title, chapter, GetSlicedFilename(file))))
         ELSE ForEachNotebook(b, chapter, notebooks, i + 1, content)

WriteForEachNotebook(b, chapter) == ForEachNotebook(b, chapter, b.chapters[chapter], 1, <<>>)

\* writeSingleNotebook
WriteSingleNotebook(b, file) ==
    LET title == FindTitle(file, FileNode(b, <<>>, file)) IN
    IF title.kind = "throw" THEN [threw |-> TRUE, content |-> <<>>]
    ELSE [threw |-> FALSE, content |-> <<SingleStanza(title, GetSlicedFilename(file))>>]

ReadmeHeader ==
    <<"#","#"," ","N","o","t","e","b","o","o","k","s"," ","i","n"," ","t","h","i","s"," ",
      "C","h","a","p","t","e","r",LF>>

\* `- [${title}](${file})\n`
ReadmeLine(title, file) ==
    <<"-"," ","[">> \o Interpolate(title) \o <<"]","(">> \o file \o <<")",LF>>

\* writeToReadme: the forEach over files[i..]; threw when findTitle raised
RECURSIVE ForEachReadmeLine(_, _, _, _, _)
\* Variant: without the readme test.
ForEachReadmeLineNoFilter(b, chapter, files, i, fileContent) ==
    IF i > Len(files) THEN [threw |-> FALSE, content |-> fileContent]
    ELSE LET file == files[i]
             title == FindTitle(file, FileNode(b, chapter, file))
         IN IF title.kind = "throw" THEN [threw |-> TRUE, content |-> <<>>]
            ELSE ForEachReadmeLine(b, chapter, files, i + 1,
                     fileContent \o ReadmeLine(title, file))

ForEachReadmeLine(b, chapter, files, i, fileContent) ==
    IF i > Len(files) THEN [threw |-> FALSE, content |-> fileContent]
    ELSE LET file == files[i] IN
         IF NotReadme(file)
         THEN LET title == FindTitle(file, FileNode(b, chapter, file)) IN
              IF title.kind = "throw" THEN [threw |-> TRUE, content |-> <<>>]
              ELSE ForEachReadmeLine(b, chapter, files, i + 1,
                       fileContent \o ReadmeLine(title, file))
         ELSE ForEachReadmeLine(b, chapter, files, i + 1, fileContent)

\* writeToReadme: the content handed to writeFileSync, or threw
WriteToReadme(b, chapter) ==
    ForEachReadmeLine(b, chapter, b.chapters[chapter], 1, ReadmeHeader)

\* context.chapterNames[idx], idx counted from 0
ChapterNameAt(b, idx) ==
    IF idx + 1 <= Len(b.chapterNames) THEN Title(b.chapterNames[idx + 1]) ELSE NoTitle

NotWritten == [written |-> FALSE, content |-> <<>>]
Written(content) == [written |-> TRUE, content |-> content]

\* the state of customizeJupyterBook's forEach: tocContent, idx, the readme.md written so
\* far, and whether an exception left the forEach
LoopStart == [toc |-> <<>>, idx |-> 0, readmes |-> [c \in Chapters |-> NotWritten],
              threw |-> FALSE]

\* one round of the forEach over bookContents: the body of the try; threw when an
\* exception leaves it
TryBody(b, file, st) ==
    IF IsChapterDir(file)
    THEN IF b.hasNames
         THEN LET chapterTitle == ChapterNameAt(b, st.idx)
                  t1 == Append(st.toc, ChapterStanza(chapterTitle, file))
                  w == WriteForEachNotebook(b, file)
                  r == WriteToReadme(b, file)
              IN IF w.threw THEN [st EXCEPT !.toc = t1, !.threw = TRUE]
                 ELSE IF r.threw THEN [st EXCEPT !.toc = t1 \o w.content, !.threw = TRUE]
                 ELSE [st EXCEPT !.toc = t1 \o w.content,
                                 !.readmes[file] = Written(r.content),
                                 !.idx = @ + 1]
         ELSE st
    ELSE LET w == WriteSingleNotebook(b, file) IN
         IF w.threw THEN [st EXCEPT !.threw = TRUE]
         ELSE [st EXCEPT !.toc = @ \o w.content]

\* the round without its catch: the exception leaves the forEach
BodyNoCatch(b, file, st) == TryBody(b, file, st)

\* the round with its catch: the exception is logged and the forEach goes on
Body(b, file, st) == [TryBody(b, file, st) EXCEPT !.threw = FALSE]

RECURSIVE ForEachContent(_, _, _, _)
ForEachContent(b, bookContents, i, st) ==
    IF i > Len(bookContents) \/ st.threw THEN st
    ELSE ForEachContent(b, bookContents, i + 1, Body(b, bookContents[i], st))

\* customizeJupyterBook under the try of buildCustomBook: what the run wrote
CustomizeJupyterBook(b) ==
    IF ~b.hasContent
    THEN [toc |-> NotWritten, readmes |-> [c \in Chapters |-> NotWritten]]
    ELSE LET st == ForEachContent(b, b.content, 1, LoopStart) IN
         [toc |-> IF b.hasData /\ ~st.threw THEN Written(st.toc) ELSE NotWritten,
          readmes |-> st.readmes]

\* a listing with name put at position pos + 1
InsertAt(listing, pos, name) ==
    SubSeq(listing, 1, pos) \o <<name>> \o SubSeq(listing, pos + 1, Len(listing))

\* the chapters whose readme.md a run creates (written, and not listed before)
Created(b, w) == {c \in Chapters : w.readmes[c].written /\ Readme \notin Range(b.chapters[c])}

BuildCustomBook ==
    /\ runs < MaxRuns
    /\ runs' = runs + 1
    /\ LET w == CustomizeJupyterBook(book) IN
        wrote' = Append(wrote, [toc |-> w.toc, readmes |-> w.readmes,
                                created |-> Created(book, w)])
    /\ LET w == wrote'[runs'] IN
        \E pos \in [Chapters -> 0..MaxChapterEntries] :
            /\ \A c \in Chapters :
                pos[c] <= (IF c \in w.created THEN Len(book.chapters[c]) ELSE 0)
            /\ book' = [book EXCEPT
                 !.chapters = [c \in Chapters |->
                     IF c \in w.created THEN InsertAt(book.chapters[c], pos[c], Readme)
                     ELSE book.chapters[c]],
                 !.readme = [c \in Chapters |->
                     IF w.readmes[c].written THEN w.readmes[c].content ELSE book.readme[c]]]
    /\ UNCHANGED <<scanVars, titleVars>>

InitBook ==
    /\ ScanIdle
    /\ titleIn = NoTitleIn
    /\ titleOut = NoTitleOut
    /\ book \in Books
    /\ wrote = <<>>
    /\ runs = 0

NextBook == BuildCustomBook

SpecBook == InitBook /\ [][NextBook]_vars

(***************************************************************************)
(* Properties of the TOC build                                             *)
(***************************************************************************)
\* what the latest run wrote
LastRun == wrote[runs]

\* the directories of ./content, in listing order
DirsOf(b) == SelectSeq(b.content, LAMBDA f : f \in Chapters)

\* the top-level files of ./content
TopFilesOf(b) == {f \in Range(b.content) : f \notin Chapters}

\* the chapter stanzas of a TOC text, in order
ChapterStanzasOf(toc) == SelectSeq(toc, LAMBDA x : x.kind = "chapter")

\* the entries of a chapter that are not a readme, in listing order
NotebooksOf(b, c) ==
    SelectSeq(b.chapters[c], LAMBDA e : ~Contains(e, <<"r","e","a","d","m","e">>))

\* title extraction raises on entry e of chapter c (c = <<>>: a top-level file)
Raises(b, c, e) == FindTitle(e, FileNode(b, c, e)).kind = "throw"

\* some notebook of chapter c makes title extraction raise
ChapterFails(b, c) == \E e \in Range(NotebooksOf(b, c)) : Raises(b, c, e)

\* the flat TOC stanza expected for the top-level file f
FlatStanzaFor(b, f) ==
    [kind |-> "single", title |-> FindTitle(f, FileNode(b, <<>>, f)),
     url |-> [chapter |-> <<>>, page |-> ToLowerCase(SubSeq(f, 1, LastDot(f) - 1))]]

\* the TOC stanza and the readme line expected for entry e of chapter c
StanzaFor(b, c, e) ==
    [kind |-> "notebook", title |-> FindTitle(e, FileNode(b, c, e)),
     url |-> [chapter |-> ToLowerCase(c),
              page |-> ToLowerCase(SubSeq(e, 1, LastDot(e) - 1))]]
LineFor(b, c, e) ==
    <<"-"," ","[">> \o FindTitle(e, FileNode(b, c, e)).val \o <<"]","(">> \o e \o <<")",LF>>

\* number of lines of a readme text after its heading
LinesAfterHeading(content) == Cardinality({i \in 1..Len(content) : content[i] = LF}) - 1

\* C7 as stated: chapter names go by position in discovery order: the k-th directory
\* found under ./content gets the chapter stanza titled context.chapterNames[k], whatever
\* happens while earlier directories are processed; no name titles two directories.
C7_ChapterNamesByPosition ==
    (runs >= 1 /\ LastRun.toc.written /\ book.hasNames) =>
        LET cs == ChapterStanzasOf(LastRun.toc.content)
            dirs == DirsOf(book)
        IN /\ Len(cs) = Len(dirs)
           /\ \A k \in 1..Len(cs) :
                /\ cs[k].url.chapter = dirs[k]
                /\ k <= Len(book.chapterNames) => cs[k].title = Title(book.chapterNames[k])
           /\ \A j, k \in 1..Len(cs) :
                (j # k /\ cs[j].title.kind = "value") => cs[j].title # cs[k].title

\* C8 as stated: a failure while processing one file does not halt its siblings: every
\* other notebook of the same chapter still gets its TOC stanza and its readme line, and
\* every other top-level entry under ./content is still processed.
C8_Original ==
    (runs >= 1 /\ LastRun.toc.written /\ book.hasNames) =>
        /\ \A c \in Range(DirsOf(book)) : \A e \in Range(NotebooksOf(book, c)) :
            ~Raises(book, c, e) =>
                /\ StanzaFor(book, c, e) \in Range(LastRun.toc.content)
                /\ LastRun.readmes[c].written
                /\ Contains(LastRun.readmes[c].content, LineFor(book, c, e))
        /\ \A f \in TopFilesOf(book) :
            ~Raises(book, <<>>, f) =>
                FlatStanzaFor(book, f) \in Range(LastRun.toc.content)

\* C8 amended: a failure while processing one file of a chapter ends the processing of
\* that chapter (the TOC keeps the chapter stanza, gets no notebook stanza of the chapter,
\* and the chapter's readme is not written), but every other top-level entry under
\* ./content is still processed: a chapter without a failing file gets a stanza and a
\* readme line for each of its notebooks, a top-level file its flat stanza, and the TOC
\* is written.
C8_FailureEndsChapterOnly ==
    (runs >= 1 /\ book.hasContent /\ book.hasData) =>
        /\ LastRun.toc.written
        /\ \A f \in TopFilesOf(book) :
            ~Raises(book, <<>>, f) =>
                FlatStanzaFor(book, f) \in Range(LastRun.toc.content)
        /\ book.hasNames => \A c \in Range(DirsOf(book)) :
            /\ \E x \in Range(LastRun.toc.content) : x.kind = "chapter" /\ x.url.chapter = c
            /\ ChapterFails(book, c) =>
                /\ ~LastRun.readmes[c].written
                /\ \A x \in Range(LastRun.toc.content) :
                    x.kind = "notebook" => x.url.chapter # ToLowerCase(c)
            /\ ~ChapterFails(book, c) =>
                /\ LastRun.readmes[c].written
                /\ \A e \in Range(NotebooksOf(book, c)) :
                    /\ StanzaFor(book, c, e) \in Range(LastRun.toc.content)
                    /\ Contains(LastRun.readmes[c].content, LineFor(book, c, e))

\* C8 witness: a run in which the first chapter holds a file that fails next to one that
\* does not, and the second chapter, listed after it, got its notebook stanza.
C8_Witness ==
    /\ runs = 1 /\ LastRun.toc.written /\ book.hasNames
    /\ book.content = <<Ch1, Ch2, Single>>
    /\ Len(book.chapters[Ch1]) = 2
    /\ Raises(book, Ch1, book.chapters[Ch1][1])
    /\ ~Raises(book, Ch1, book.chapters[Ch1][2])
    /\ NotebookStanza(Title(<<"H","i">>), Ch2, <<"m">>) \in Range(LastRun.toc.content)

\* C9: buildCustomBook twice in a row, with the same context and the same initial
\* ./content tree, writes the same toc.yml and the same readme.md files the second time.
C9_Idempotent ==
    \A k \in 2..runs :
        /\ wrote[k].toc = wrote[k - 1].toc
        /\ wrote[k].readmes = wrote[k - 1].readmes

\* C9 witness: a second run after a first run that created a readme.md and wrote the TOC
\* with a notebook stanza.
C9_Witness ==
    /\ runs = 2
    /\ wrote[1].created # {}
    /\ wrote[2].toc.written
    /\ \E x \in Range(wrote[2].toc.content) : x.kind = "notebook"

====
